---- MODULE Spec2Model ----
(***************************************************************************)
(* Evobird, libs/genetic-algorithm: the generational step evolve and its   *)
(* three strategies (RouletteWheelSelection, UniformCrossover,             *)
(* GaussianMutation) together with Statistics.                             *)
(*                                                                         *)
(* Numbers.  Genes and fitness are f32 in the source.  Here a gene is an   *)
(* integer count of 1/MagRes units, a probability is an integer count of   *)
(* halves (Half = 0.5, One = 1.0), and the float drawn by rng.gen::<f32>() *)
(* is k/MagRes with k in 0..MagRes-1, so that coeff * u is the integer     *)
(* coeff * k in gene units.  Rounding of f32 arithmetic is not modelled.   *)
(*                                                                         *)
(* Randomness.  Every call on the random source (gen_bool, gen::<f32>, the *)
(* one uniform sample of choose_weighted) is one draw; the value drawn is  *)
(* chosen nondeterministically and the draw is appended to the log.        *)
(***************************************************************************)
EXTENDS Integers, Sequences, FiniteSets, TLC

VARIABLES
    population,      \* the caller's population: a sequence of individuals
    chance,          \* GaussianMutation.chance, in halves
    coeff,           \* GaussianMutation.coeff
    pc,              \* position of the running call
    new_population,  \* the offspring collected so far by evolve
    ret,             \* what evolve returned: [population, stats], or None
    failure,         \* the fatal failure that ended the call, or "none"
    gen,             \* number of evolve calls the caller's loop has completed
    parent_a,        \* first parent chromosome of the current slot / call
    parent_b,        \* second parent chromosome of the current slot / call
    child,           \* the chromosome built by crossover, mutated in place
    before,          \* the chromosome as it was handed to mutate
    selected,        \* index of the individual select returned, 0 if none
    log              \* the draws taken from the random source, in order

vars == <<population, chance, coeff, pc, new_population, ret, failure, gen,
          parent_a, parent_b, child, before, selected, log>>

\* ---------------------------------------------------------------- bounds
MaxPop == 2
MaxLen == 2
MaxGene == 1
MaxCoeff == 1
MaxGen == 2
MagRes == 2

\* gen_bool(0.5): probabilities are counted in halves
Half == 1
One == 2 * Half

None == [absent |-> TRUE]

\* ---------------------------------------------------------------- helpers
RECURSIVE Sum(_)
Sum(s) == IF s = <<>> THEN 0 ELSE Head(s) + Sum(Tail(s))

Abs(x) == IF x < 0 THEN -x ELSE x

Min(a, b) == IF b < a THEN b ELSE a

Max(a, b) == IF b > a THEN b ELSE a

RECURSIVE Flatten(_)
Flatten(ss) == IF ss = <<>> THEN <<>> ELSE Head(ss) \o Flatten(Tail(ss))

\* ---------------------------------------------------------------- random source
\* The raw value behind gen_bool: the sample is compared with the probability.
BoolDraws == 0 .. (One - 1)

\* rng.gen::<f32>() is uniform in [0, 1): k / MagRes
FloatDraws == 0 .. (MagRes - 1)

GenBool(p, v) == v < p

\* ---------------------------------------------------------------- Chromosome
ChromosomeLen(c) == Len(c)

Genes == 0 .. MaxGene

Chromosomes == UNION {[1 .. n -> Genes] : n \in 1 .. MaxLen}

\* ---------------------------------------------------------------- Individual
\* TestIndividual::WithChromosome: the individual is its chromosome
Create(chromosome) == chromosome

Chromosome(indiv) == indiv

Fitness(indiv) == Sum(Chromosome(indiv))

Populations == UNION {[1 .. n -> Chromosomes] : n \in 0 .. MaxPop}

\* ---------------------------------------------------------------- RouletteWheelSelection
Weights(pop) == [i \in 1 .. Len(pop) |-> Fitness(pop[i])]

TotalWeight(pop) == Sum(Weights(pop))

CumulativeWeight(pop, i) == Sum(SubSeq(Weights(pop), 1, i))

\* choose_weighted is Err for no item, a negative weight, or a zero total
ChooseWeightedErr(pop) ==
    \/ Len(pop) = 0
    \/ \E i \in 1 .. Len(pop) : Fitness(pop[i]) < 0
    \/ TotalWeight(pop) = 0

\* the sample of choose_weighted is uniform in [0, total)
WeightDraws(pop) == 0 .. (TotalWeight(pop) - 1)

\* the first index whose cumulative weight exceeds the sample
ChooseWeighted(pop, r) ==
    CHOOSE i \in 1 .. Len(pop) :
        /\ CumulativeWeight(pop, i) > r
        /\ \A j \in 1 .. (i - 1) : CumulativeWeight(pop, j) <= r

\* select: .expect() turns Err into a fatal failure, modelled as index 0
Select(pop, r) == IF ChooseWeightedErr(pop) THEN 0 ELSE ChooseWeighted(pop, r)

\* the draw select takes from the random source
SelectDraws(r) == <<[draw |-> "select", gene |-> 0, value |-> r]>>

\* ---------------------------------------------------------------- UniformCrossover
\* assert_eq!(parent_a.len(), parent_b.len())
CrossoverPanics(a, b) == ChromosomeLen(a) # ChromosomeLen(b)

\* if rng.gen_bool(0.5) {a} else {b}
CrossoverGene(a, b, v) == IF GenBool(Half, v) THEN a ELSE b

\* variant: parent B walked from its last gene (parent_b.iter().rev())
CrossoverReversed(a, b, mask) ==
    [i \in 1 .. ChromosomeLen(a) |->
        CrossoverGene(a[i], b[ChromosomeLen(b) + 1 - i], mask[i])]

\* variant: the last gene pair is dropped
CrossoverTruncated(a, b, mask) ==
    [i \in 1 .. (ChromosomeLen(a) - 1) |-> CrossoverGene(a[i], b[i], mask[i])]

\* zip of the parents mapped gene by gene and collected; mask[i] is gene i's draw
Crossover(a, b, mask) ==
    [i \in 1 .. ChromosomeLen(a) |-> CrossoverGene(a[i], b[i], mask[i])]

\* variant: no draw is taken where the parents agree
CrossoverDrawsSkipEqual(a, b, mask) ==
    LET all == [i \in 1 .. ChromosomeLen(a) |->
                   [draw |-> "crossover", gene |-> i, value |-> mask[i]]]
        Differs(e) == a[e.gene] # b[e.gene]
    IN  SelectSeq(all, Differs)

\* one gen_bool(0.5) per gene pair, in genome order
CrossoverDraws(a, b, mask) ==
    [i \in 1 .. ChromosomeLen(a) |->
        [draw |-> "crossover", gene |-> i, value |-> mask[i]]]

CrossoverMasks(a) == [1 .. ChromosomeLen(a) -> BoolDraws]

\* ---------------------------------------------------------------- GaussianMutation
\* GaussianMutation::new: assert!(chance >= 0.0 && chance <= 1.0)
GaussianMutationNew(ch, co) == ch >= 0 /\ ch <= One

Chances == {ch \in -1 .. (One + 1) : GaussianMutationNew(ch, 0)}

Coeffs == (-MaxCoeff) .. MaxCoeff

\* let sign = if rng.gen_bool(0.5) {-1.0} else {1.0}
Sign(v) == IF GenBool(Half, v) THEN -1 ELSE 1

\* if rng.gen_bool(self.chance as f64)
Touched(ch, v) == GenBool(ch, v)

\* the three values one gene may draw; mag is used only when the gene is touched
MutationDraws == [sign : BoolDraws, touch : BoolDraws, mag : FloatDraws]

\* variant: *gene += sign * self.coeff + rng.gen::<f32>()
MutateGenePlus(gene, ch, co, d) ==
    IF Touched(ch, d.touch) THEN gene + Sign(d.sign) * co * MagRes + d.mag ELSE gene

\* variant: the gene is changed whatever the touch draw
MutateGeneAlways(gene, ch, co, d) == gene + Sign(d.sign) * co * d.mag

\* *gene += sign * self.coeff * rng.gen::<f32>()
MutateGene(gene, ch, co, d) ==
    IF Touched(ch, d.touch) THEN gene + Sign(d.sign) * co * d.mag ELSE gene

\* variant: the touch draw is taken before the sign draw
MutateGeneDrawsTouchFirst(i, ch, d) ==
    <<[draw |-> "touch", gene |-> i, value |-> d.touch],
      [draw |-> "sign", gene |-> i, value |-> d.sign]>>
    \o (IF Touched(ch, d.touch)
        THEN <<[draw |-> "magnitude", gene |-> i, value |-> d.mag]>>
        ELSE <<>>)

\* the draws taken for gene i, in the order the loop body takes them
MutateGeneDraws(i, ch, d) ==
    <<[draw |-> "sign", gene |-> i, value |-> d.sign],
      [draw |-> "touch", gene |-> i, value |-> d.touch]>>
    \o (IF Touched(ch, d.touch)
        THEN <<[draw |-> "magnitude", gene |-> i, value |-> d.mag]>>
        ELSE <<>>)

\* for gene in child.iter_mut()
Mutate(c, ch, co, ds) ==
    [i \in 1 .. ChromosomeLen(c) |-> MutateGene(c[i], ch, co, ds[i])]

MutateDraws(c, ch, ds) ==
    Flatten([i \in 1 .. ChromosomeLen(c) |-> MutateGeneDraws(i, ch, ds[i])])

\* ---------------------------------------------------------------- Statistics
\* the for loop of Statistics::new, from individual i on
RECURSIVE StatisticsLoop(_, _, _, _, _)
StatisticsLoop(pop, i, min_fitness, max_fitness, sum_fitness) ==
    IF i > Len(pop)
    THEN [min_fitness |-> min_fitness,
          max_fitness |-> max_fitness,
          avg_fitness |-> [num |-> sum_fitness, den |-> Len(pop)]]
    ELSE StatisticsLoop(pop, i + 1,
                        Min(min_fitness, Fitness(pop[i])),
                        Max(max_fitness, Fitness(pop[i])),
                        sum_fitness + Fitness(pop[i]))

\* avg_fitness is the quotient sum / len, kept as the fraction num / den
StatisticsNew(pop) ==
    StatisticsLoop(pop, 1, Fitness(pop[1]), Fitness(pop[1]), 0)

\* ---------------------------------------------------------------- GeneticAlgorithm.evolve
\* variant: (1..population.len())
SlotCountOffByOne(pop) == Len(pop) - 1

\* (0..population.len()): the number of output slots
SlotCount(pop) == Len(pop)

\* variant: Statistics::new(&new_population)
StatisticsOfOffspring(pop, offspring) == offspring

\* Statistics::new(population): the population the statistics are taken over
StatisticsInput(pop, offspring) == pop

\* variant: the offspring collected so far are handed back
FailedReturnPartial(offspring) == [population |-> offspring, stats |-> None]

\* what a call that failed hands back to its caller: nothing (the panic unwinds)
FailedReturn(offspring) == None

\* a draw of the log as evolve records it for its slot
Tag(entries, slot) ==
    [k \in 1 .. Len(entries) |->
        [draw |-> entries[k].draw, slot |-> slot, gene |-> entries[k].gene]]

CurrentSlot == Len(new_population) + 1

Locals == <<parent_a, parent_b, child, before, selected>>

Config == <<chance, coeff>>

Fail(why) ==
    /\ pc' = "failed"
    /\ failure' = why
    /\ ret' = FailedReturn(new_population)

InitCommon ==
    /\ pc = "idle"
    /\ new_population = <<>>
    /\ ret = None
    /\ failure = "none"
    /\ gen = 0
    /\ selected = 0
    /\ before = <<>>
    /\ log = <<>>

Init ==
    /\ InitCommon
    /\ population \in Populations
    /\ chance \in Chances
    /\ coeff \in Coeffs
    /\ parent_a = <<>>
    /\ parent_b = <<>>
    /\ child = <<>>

\* evolve is entered: assert!(!population.is_empty())
EvolveBegin ==
    /\ pc = "idle"
    /\ gen < MaxGen
    /\ \/ /\ Len(population) = 0
          /\ Fail("EmptyPopulation")
          /\ UNCHANGED <<new_population, log>>
       \/ /\ Len(population) > 0
          /\ pc' = "select"
          /\ new_population' = <<>>
          /\ log' = <<>>
          /\ UNCHANGED <<ret, failure>>
    /\ UNCHANGED <<population, Config, gen, Locals>>

\* the closure of a slot: the two selections
SlotSelect ==
    /\ pc = "select"
    /\ Len(new_population) < SlotCount(population)
    /\ \/ /\ ChooseWeightedErr(population)
          /\ Fail("SelectExpect")
          /\ UNCHANGED <<parent_a, parent_b, log>>
       \/ /\ ~ChooseWeightedErr(population)
          /\ \E ra \in WeightDraws(population), rb \in WeightDraws(population) :
                /\ parent_a' = Chromosome(population[Select(population, ra)])
                /\ parent_b' = Chromosome(population[Select(population, rb)])
                /\ log' = log \o Tag(SelectDraws(ra) \o SelectDraws(rb), CurrentSlot)
          /\ pc' = "crossover"
          /\ UNCHANGED <<ret, failure>>
    /\ UNCHANGED <<population, Config, gen, new_population, child, before, selected>>

\* the closure of a slot: the crossover of the two parents
SlotCrossover ==
    /\ pc = "crossover"
    /\ \/ /\ CrossoverPanics(parent_a, parent_b)
          /\ Fail("LengthMismatch")
          /\ UNCHANGED <<child, log>>
       \/ /\ ~CrossoverPanics(parent_a, parent_b)
          /\ \E mask \in CrossoverMasks(parent_a) :
                /\ child' = Crossover(parent_a, parent_b, mask)
                /\ log' = log \o Tag(CrossoverDraws(parent_a, parent_b, mask), CurrentSlot)
          /\ pc' = "mutate"
          /\ UNCHANGED <<ret, failure>>
    /\ UNCHANGED <<population, Config, gen, new_population, parent_a, parent_b,
                   before, selected>>

\* the closure of a slot: the mutation of the child, then I::create(child)
SlotMutate ==
    /\ pc = "mutate"
    /\ \E ds \in [1 .. ChromosomeLen(child) -> MutationDraws] :
          /\ new_population' =
                Append(new_population, Create(Mutate(child, chance, coeff, ds)))
          /\ log' = log \o Tag(MutateDraws(child, chance, ds), CurrentSlot)
    /\ pc' = "select"
    /\ parent_a' = <<>>
    /\ parent_b' = <<>>
    /\ child' = <<>>
    /\ UNCHANGED <<population, Config, gen, ret, failure, before, selected>>

\* collect() is complete: Statistics::new(population), (new_population, stats)
EvolveReturn ==
    /\ pc = "select"
    /\ Len(new_population) >= SlotCount(population)
    /\ ret' = [population |-> new_population,
               stats |-> StatisticsNew(StatisticsInput(population, new_population))]
    /\ pc' = "returned"
    /\ UNCHANGED <<population, Config, gen, new_population, failure, Locals, log>>

\* the caller's loop: (population, _stats) = ga.evolve(&mut rng, &population)
NextGeneration ==
    /\ pc = "returned"
    /\ population' = ret.population
    /\ gen' = gen + 1
    /\ pc' = "idle"
    /\ ret' = None
    /\ new_population' = <<>>
    /\ log' = <<>>
    /\ UNCHANGED <<Config, failure, Locals>>

Next ==
    \/ EvolveBegin
    \/ SlotSelect
    \/ SlotCrossover
    \/ SlotMutate
    \/ EvolveReturn
    \/ NextGeneration

Spec == Init /\ [][Next]_vars

\* ---------------------------------------------------------------- the strategies called directly
\* RouletteWheelSelection.select(rng, population), as the selection test calls it
InitSelect ==
    /\ InitCommon
    /\ population \in Populations
    /\ chance = 0
    /\ coeff = 0
    /\ parent_a = <<>>
    /\ parent_b = <<>>
    /\ child = <<>>

CallSelect ==
    /\ pc = "idle"
    /\ \/ /\ ChooseWeightedErr(population)
          /\ Fail("SelectExpect")
          /\ UNCHANGED <<selected, log>>
       \/ /\ ~ChooseWeightedErr(population)
          /\ \E r \in WeightDraws(population) :
                /\ selected' = Select(population, r)
                /\ log' = SelectDraws(r)
          /\ pc' = "selected"
          /\ UNCHANGED <<ret, failure>>
    /\ UNCHANGED <<population, Config, gen, new_population, parent_a, parent_b,
                   child, before>>

NextSelect == CallSelect

SpecSelect == InitSelect /\ [][NextSelect]_vars

\* UniformCrossover.crossover(rng, parent_a, parent_b), as the crossover test calls it
InitCrossover ==
    /\ InitCommon
    /\ population = <<>>
    /\ chance = 0
    /\ coeff = 0
    /\ parent_a \in Chromosomes
    /\ parent_b \in Chromosomes
    /\ child = <<>>

CallCrossover ==
    /\ pc = "idle"
    /\ \/ /\ CrossoverPanics(parent_a, parent_b)
          /\ Fail("LengthMismatch")
          /\ UNCHANGED <<child, log>>
       \/ /\ ~CrossoverPanics(parent_a, parent_b)
          /\ \E mask \in CrossoverMasks(parent_a) :
                /\ child' = Crossover(parent_a, parent_b, mask)
                /\ log' = CrossoverDraws(parent_a, parent_b, mask)
          /\ pc' = "crossed"
          /\ UNCHANGED <<ret, failure>>
    /\ UNCHANGED <<population, Config, gen, new_population, parent_a, parent_b,
                   before, selected>>

NextCrossover == CallCrossover

SpecCrossover == InitCrossover /\ [][NextCrossover]_vars

\* GaussianMutation::new(chance, coeff).mutate(rng, child), as the mutation tests call it
InitMutate ==
    /\ InitCommon
    /\ population = <<>>
    /\ chance \in Chances
    /\ coeff \in Coeffs
    /\ parent_a = <<>>
    /\ parent_b = <<>>
    /\ child \in Chromosomes

CallMutate ==
    /\ pc = "idle"
    /\ \E ds \in [1 .. ChromosomeLen(child) -> MutationDraws] :
          /\ child' = Mutate(child, chance, coeff, ds)
          /\ log' = MutateDraws(child, chance, ds)
    /\ before' = child
    /\ pc' = "mutated"
    /\ UNCHANGED <<population, Config, gen, new_population, ret, failure,
                   parent_a, parent_b, selected>>

NextMutate == CallMutate

SpecMutate == InitMutate /\ [][NextMutate]_vars

\* ---------------------------------------------------------------- properties
FitnessSet(pop) == {Fitness(pop[i]) : i \in 1 .. Len(pop)}

UniformLength(pop, n) == \A i \in 1 .. Len(pop) : ChromosomeLen(Chromosome(pop[i])) = n

Kinds(entries) == [k \in 1 .. Len(entries) |-> entries[k].draw]

\* the draws of the log taken for gene i
GeneLog(entries, i) ==
    LET OfGene(e) == e.gene = i IN SelectSeq(entries, OfGene)

\* the draws of the log taken in slot s of evolve
SlotLog(entries, s) ==
    LET OfSlot(e) == e.slot = s IN SelectSeq(entries, OfSlot)

\* entries is a mutation pass over n genes: gene by gene in genome order, each
\* gene a sign draw, then a touch draw, then at most one magnitude draw
IsMutationLog(entries, n) ==
    /\ entries = Flatten([i \in 1 .. n |-> GeneLog(entries, i)])
    /\ \A i \in 1 .. n :
          Kinds(GeneLog(entries, i)) \in
              {<<"sign", "touch">>, <<"sign", "touch", "magnitude">>}

\* C1: whenever evolve returns, the population it returns has exactly as many
\* individuals as the population it was given, and no step of a run of repeated
\* evolve calls, each fed the previous output, changes the population's size.
C1_EvolveKeepsSize ==
    [][/\ pc' = "returned" => Len(ret'.population) = Len(population)
       /\ Len(population') = Len(population)]_vars

C1_Witness ==
    /\ pc = "idle"
    /\ gen = 2
    /\ Len(population) = 2
    /\ \E i \in 1 .. 2 : \E j \in 1 .. Len(population[i]) : population[i][j] > MaxGene

\* C2: select on a non-empty population whose fitness values are all
\* non-negative returns a member of the population; it fails only on the
\* empty population.
C2_SelectFailsOnlyOnEmpty ==
    (/\ pc \in {"selected", "failed"}
     /\ Len(population) > 0
     /\ \A i \in 1 .. Len(population) : Fitness(population[i]) >= 0)
    => (pc = "selected" /\ selected \in 1 .. Len(population))

\* C3: the child of crossover has the parents' length, every gene of it is the
\* gene of parent A or of parent B at the same position, and exactly one draw is
\* taken per gene, in genome order.
C3_CrossoverCopiesGenes ==
    pc = "crossed" =>
        /\ ChromosomeLen(child) = ChromosomeLen(parent_a)
        /\ ChromosomeLen(child) = ChromosomeLen(parent_b)
        /\ \A i \in 1 .. ChromosomeLen(child) : child[i] \in {parent_a[i], parent_b[i]}
        /\ Len(log) = ChromosomeLen(child)
        /\ \A i \in 1 .. Len(log) : log[i].draw = "crossover" /\ log[i].gene = i

C3_Witness ==
    /\ pc = "crossed"
    /\ ChromosomeLen(child) = 2
    /\ child # parent_a
    /\ child # parent_b

\* C4: the Statistics evolve returns are those of the population it was given:
\* min_fitness and max_fitness are the least and the greatest fitness of the
\* input individuals and avg_fitness is their sum divided by their number.
C4_StatisticsOfInput ==
    pc = "returned" =>
        /\ ret.stats.min_fitness \in FitnessSet(population)
        /\ \A f \in FitnessSet(population) : ret.stats.min_fitness <= f
        /\ ret.stats.max_fitness \in FitnessSet(population)
        /\ \A f \in FitnessSet(population) : ret.stats.max_fitness >= f
        /\ ret.stats.avg_fitness.den = Len(population)
        /\ ret.stats.avg_fitness.num = Sum(Weights(population))

C4_Witness ==
    /\ pc = "returned"
    /\ Len(population) = 2
    /\ Fitness(population[1]) # Fitness(population[2])
    /\ \A f \in FitnessSet(ret.population) : f > ret.stats.max_fitness

\* C5 as stated: with chance = 1, every gene changes by at most c (the
\* coefficient itself, whatever its sign); c is MagRes * coeff in gene units.
C5_ChangeAtMostCoeff ==
    (pc = "mutated" /\ chance = One) =>
        \A i \in 1 .. ChromosomeLen(child) :
            Abs(child[i] - before[i]) <= coeff * MagRes

\* C5 amended: with chance = 1, every gene changes by at most the magnitude |c|
\* of the coefficient.
C5_ChangeAtMostAbsCoeff ==
    (pc = "mutated" /\ chance = One) =>
        \A i \in 1 .. ChromosomeLen(child) :
            Abs(child[i] - before[i]) <= Abs(coeff) * MagRes

C5_Witness ==
    /\ pc = "mutated"
    /\ chance = One
    /\ coeff < 0
    /\ \A i \in 1 .. ChromosomeLen(child) : child[i] # before[i]

\* C6: mutate leaves every gene unchanged when chance = 0, whatever the
\* coefficient, and when the coefficient is 0, whatever the chance.
C6_MutationNoOp ==
    (pc = "mutated" /\ (chance = 0 \/ coeff = 0)) => child = before

C6_Witness ==
    /\ pc = "mutated"
    /\ chance = One
    /\ coeff = 0
    /\ ChromosomeLen(child) = 2
    /\ \E k \in 1 .. Len(log) : log[k].draw = "magnitude" /\ log[k].value > 0

\* C7: mutate takes its draws gene by gene in genome order: for each gene the
\* sign draw, then the touch draw, then a magnitude draw exactly when the touch
\* draw touched the gene; two draws for an untouched gene, three for a touched one.
C7_MutationDrawOrder ==
    pc = "mutated" =>
        /\ IsMutationLog(log, ChromosomeLen(before))
        /\ \A i \in 1 .. ChromosomeLen(before) :
              LET g == GeneLog(log, i)
              IN  Len(g) = (IF Touched(chance, g[2].value) THEN 3 ELSE 2)

C7_Witness ==
    /\ pc = "mutated"
    /\ ChromosomeLen(before) = 2
    /\ Kinds(log) = <<"sign", "touch", "magnitude", "sign", "touch">>

C9_FailsBeforeAnyOffspring ==
    pc = "failed" => new_population = <<>>

\* C9 amended: a call hands back either all N offspring or nothing; a failure
\* of the non-empty assertion or of selection comes before any offspring is
\* constructed (a length mismatch may come after some were).
C9_NoPartialResult ==
    /\ pc = "failed" => ret = None
    /\ pc = "returned" => Len(ret.population) = Len(population)
    /\ failure \in {"EmptyPopulation", "SelectExpect"} => new_population = <<>>

C9_Witness ==
    /\ pc = "failed"
    /\ failure = "LengthMismatch"
    /\ Len(new_population) = 1
    /\ ret = None

\* C10: if every individual of a population has a chromosome of length n, then
\* so has every individual of the offspring being collected and of the next
\* population, through any number of evolve calls.
C10_LengthInvariant ==
    [][\A n \in 1 .. MaxLen :
          UniformLength(population, n) =>
              UniformLength(population', n) /\ UniformLength(new_population', n)]_vars

C10_Witness ==
    /\ pc = "idle"
    /\ gen = 2
    /\ Len(population) = 2
    /\ UniformLength(population, 2)
    /\ \E i \in 1 .. 2 : \E j \in 1 .. 2 : population[i][j] < 0

====
